---------------------------- MODULE Spec2Model ----------------------------
(***************************************************************************)
(* A model of the skillify client: the session/role store and route guard  *)
(* (src/src/App.tsx), the messaging pages (src/src/pages/student/          *)
(* Messages.tsx, MentorMessages in src/unnamed/part_000) with the chat     *)
(* panel (src/src/components/CourseChat.tsx), and the mentor's session     *)
(* scheduling page (MentorMentoria in src/unnamed/part_000).               *)
(*                                                                         *)
(* JavaScript strings whose characters matter (roles, tokens) are          *)
(* sequences of one-character strings, so that toUpperCase is computed.    *)
(* null and undefined are the one-element sequences NULL and UNDEFINED,    *)
(* which no string equals.  Paths are sequences of segments.               *)
(***************************************************************************)
EXTENDS Integers, Sequences, FiniteSets, Bags, TLC

VARIABLES
    \* ---- App.tsx: session/role store and router ----
    storage,          \* localStorage: [token, userRole, userId]
    authChecked,      \* useState(false)
    isAuthenticated,  \* useState(false)
    userRole,         \* useState(null)
    path,             \* the router's current location
    rendered,         \* what App renders for the current location
    \* ---- the clock behind Date.now() and new Date() ----
    now,
    \* ---- messaging pages (StudentMessages / MentorMessages) ----
    page,             \* "student" or "mentor": which page is mounted
    srvReceived,      \* backend: messages received by the current user
    srvSent,          \* backend: messages sent by the current user
    srvRoster,        \* backend: the roster of potential counterparts
    loadPc,           \* position of fetchData: idle, recv, sent, roster, done
    loading,          \* useState(true)
    error,            \* useState(null)
    withChats,        \* mentorsWithChats / studentsWithChats
    available,        \* availableMentors / studentsWithoutChats
    selected,         \* selectedMentor / selectedStudent
    showChatOnMobile, \* useState(false)
    searchQuery,      \* useState("")
    sends,            \* page handleSendMessage calls awaiting the backend
    \* ---- chat panel (CourseChat) ----
    panelMessages,    \* useState([])
    panelLoading,     \* useState(true)
    panelFetches,     \* fetchMessages calls awaiting the backend
    \* ---- session scheduling page (MentorMentoria) ----
    srvSessions,        \* backend: what getAllSessions answers
    fetchPc,            \* position of fetchSessions: idle, sessions, done
    date,               \* useState(new Date()): the selected day
    mentoringSessions,  \* useState([])
    filteredSessions,   \* useState([]): the visible list
    activeSession,      \* useState(null)
    calendarEvents,     \* useState([])
    sessionsLoading,    \* useState(true) (loading of MentorMentoria)
    showDeleteDialog,   \* useState(false)
    sessionToDelete,    \* useState(null)
    isDeleting,         \* useState(false)
    showEditLinkDialog, \* useState(false)
    sessionToEdit,      \* useState(null)
    newLink,            \* useState("")
    isUpdatingLink,     \* useState(false)
    toast,              \* the last toast shown
    opened,             \* the last link given to window.open
    toastActions,       \* "Encerrar chat" actions of toasts on screen
    deletes,            \* deleteSession calls awaiting the backend
    edits               \* updateSession calls awaiting the backend

authVars == <<storage, authChecked, isAuthenticated, userRole, path, rendered>>

msgVars ==
    <<page, srvReceived, srvSent, srvRoster, loadPc, loading, error, withChats,
      available, selected, showChatOnMobile, searchQuery, sends>>

panelVars == <<panelMessages, panelLoading, panelFetches>>

schedVars ==
    <<srvSessions, fetchPc, date, mentoringSessions, filteredSessions,
      activeSession, calendarEvents, sessionsLoading, showDeleteDialog,
      sessionToDelete, isDeleting, showEditLinkDialog, sessionToEdit, newLink,
      isUpdatingLink, toast, opened, toastActions, deletes, edits>>

vars == <<authVars, now, msgVars, panelVars, schedVars>>

\* What the operations of App.tsx leave alone.
notAuthVars == <<now, msgVars, panelVars, schedVars>>

\* What the operations of MentorMentoria leave alone.
notSchedVars == <<authVars, now, msgVars, panelVars>>

\* ------------------------------------------------------------------------
\* JavaScript values
\* ------------------------------------------------------------------------
NULL == <<"<null>">>
UNDEFINED == <<"<undefined>">>

\* JavaScript truthiness of a string-or-null value: null, undefined and the
\* empty string are falsy.
Truthy(v) == v # NULL /\ v # UNDEFINED /\ v # <<>>

LowerLetters ==
    <<"a","b","c","d","e","f","g","h","i","j","k","l","m",
      "n","o","p","q","r","s","t","u","v","w","x","y","z">>
UpperLetters ==
    <<"A","B","C","D","E","F","G","H","I","J","K","L","M",
      "N","O","P","Q","R","S","T","U","V","W","X","Y","Z">>

UpperChar(c) ==
    IF \E i \in DOMAIN LowerLetters : LowerLetters[i] = c
    THEN UpperLetters[CHOOSE i \in DOMAIN LowerLetters : LowerLetters[i] = c]
    ELSE c

\* String.prototype.toUpperCase
ToUpperCase(s) == [i \in DOMAIN s |-> UpperChar(s[i])]

LowerChar(c) ==
    IF \E i \in DOMAIN UpperLetters : UpperLetters[i] = c
    THEN LowerLetters[CHOOSE i \in DOMAIN UpperLetters : UpperLetters[i] = c]
    ELSE c

\* String.prototype.toLowerCase
ToLowerCase(s) == [i \in DOMAIN s |-> LowerChar(s[i])]

\* String.prototype.includes
Includes(text, query) ==
    \E start \in 0..(Len(text) - Len(query)) :
        SubSeq(text, start + 1, start + Len(query)) = query

OptToUpperCase_AsStored(x) == IF x = NULL \/ x = UNDEFINED THEN UNDEFINED ELSE x

\* x?.toUpperCase(): undefined when x is null or undefined
OptToUpperCase(x) == IF x = NULL \/ x = UNDEFINED THEN UNDEFINED ELSE ToUpperCase(x)

ESTUDANTE == <<"E","S","T","U","D","A","N","T","E">>
ADMIN == <<"A","D","M","I","N">>
MENTOR == <<"M","E","N","T","O","R">>

\* lastMessageTime: undefined
NoTime == -1

\* ------------------------------------------------------------------------
\* A page that is not mounted: its state has the useState initial values and
\* the backend holds nothing for it.
\* ------------------------------------------------------------------------
\* useState<MentorChat | null>(null): no counterpart is selected
NoSelection == [id |-> NULL, lastMessage |-> UNDEFINED, lastMessageTime |-> NoTime]

PanelUnmounted ==
    /\ panelMessages = <<>>
    /\ panelLoading = TRUE
    /\ panelFetches = EmptyBag

\* A Date object: a day and the minutes since its midnight (local time),
\* an Invalid Date, or undefined where a Date is expected.
DateOf(y, m, d, minutes) ==
    [kind |-> "date", year |-> y, month |-> m, day |-> d, minutes |-> minutes]
InvalidDate == [kind |-> "invalid", year |-> 0, month |-> 0, day |-> 0, minutes |-> 0]
UndefinedDate == [kind |-> "undefined", year |-> 0, month |-> 0, day |-> 0, minutes |-> 0]

\* A TutorSessionResponseDTO, and the null in its place.
Session(id, mentorId, dateText, type, link) ==
    [id |-> id, mentorId |-> mentorId, date |-> dateText, type |-> type, link |-> link]
NoSession == Session(NULL, NULL, UNDEFINED, "none", NULL)

\* MentorMentoria is not mounted.
MentoriaUnmounted ==
    /\ srvSessions = <<>>
    /\ fetchPc = "idle"
    /\ date = UndefinedDate
    /\ mentoringSessions = <<>>
    /\ filteredSessions = <<>>
    /\ activeSession = NULL
    /\ calendarEvents = <<>>
    /\ sessionsLoading = TRUE
    /\ showDeleteDialog = FALSE
    /\ sessionToDelete = NULL
    /\ isDeleting = FALSE
    /\ showEditLinkDialog = FALSE
    /\ sessionToEdit = NoSession
    /\ newLink = <<>>
    /\ isUpdatingLink = FALSE
    /\ toast = ""
    /\ opened = NULL
    /\ toastActions = {}
    /\ deletes = {}
    /\ edits = {}

MessagingUnmounted ==
    /\ now = 0
    /\ page = "none"
    /\ srvReceived = <<>>
    /\ srvSent = <<>>
    /\ srvRoster = <<>>
    /\ loadPc = "idle"
    /\ loading = TRUE
    /\ error = NULL
    /\ withChats = <<>>
    /\ available = <<>>
    /\ selected = NoSelection
    /\ showChatOnMobile = FALSE
    /\ searchQuery = <<>>
    /\ sends = EmptyBag
    /\ PanelUnmounted

\* ------------------------------------------------------------------------
\* Inputs of the session store
\* ------------------------------------------------------------------------
\* Role strings a backend or a stored value may carry, in several letter cases,
\* and one that is no role of the application.
RoleStrings ==
    { ESTUDANTE, ADMIN, MENTOR,
      <<"e","s","t","u","d","a","n","t","e">>,
      <<"A","d","m","i","n">>,
      <<"m","e","n","t","o","r">>,
      <<"G","U","E","S","T">> }

\* Tokens the backend issues on login: opaque non-empty strings.
Tokens == { <<"t","k","1">>, <<"t","k","2">> }

\* What localStorage may hold under "token" when the application starts.
StoredTokens == Tokens \cup { NULL, <<>> }
StoredRoles == RoleStrings \cup { NULL }
StoredUserIds == { NULL, <<"u","1">> }

\* ------------------------------------------------------------------------
\* Routes (App.tsx 132-207).  A path is its sequence of segments.
\* ------------------------------------------------------------------------
LoginPath == <<"login">>
RootPath == <<>>

Paths ==
    { RootPath, LoginPath, <<"registro">>, <<"logout">>,
      <<"dashboard">>, <<"dashboard", "cursos">>,
      <<"admin">>, <<"admin", "usuarios">>,
      <<"mentor">>, <<"mentor", "mentoria">>,
      <<"nao-existe">> }

Nothing == [kind |-> "null", arg |-> <<>>]
Navigate(to) == [kind |-> "navigate", arg |-> to]
Page(name) == [kind |-> "page", arg |-> <<name>>]

\* A mutant of getDashboardPath: the default is the student's dashboard.
getDashboardPath_DefaultDashboard ==
    CASE userRole = ESTUDANTE -> <<"dashboard">>
      [] userRole = ADMIN -> <<"admin">>
      [] userRole = MENTOR -> <<"mentor">>
      [] OTHER -> <<"dashboard">>

\* A mutant of getDashboardPath: the MENTOR case falls through to the default.
getDashboardPath_NoMentorCase ==
    CASE userRole = ESTUDANTE -> <<"dashboard">>
      [] userRole = ADMIN -> <<"admin">>
      [] OTHER -> LoginPath

getDashboardPath ==
    CASE userRole = ESTUDANTE -> <<"dashboard">>
      [] userRole = ADMIN -> <<"admin">>
      [] userRole = MENTOR -> <<"mentor">>
      [] OTHER -> LoginPath

\* A mutant of AuthWrapper: the role comparison is left out.
AuthWrapper_NoRoleCheck(children, requiredRole) ==
    IF ~authChecked THEN Nothing
    ELSE IF ~isAuthenticated THEN Navigate(LoginPath)
    ELSE children

AuthWrapper(children, requiredRole) ==
    IF ~authChecked THEN Nothing
    ELSE IF ~isAuthenticated THEN Navigate(LoginPath)
    ELSE IF Truthy(requiredRole) /\ userRole # requiredRole
         THEN Navigate(getDashboardPath)
    ELSE children

\* The role a guarded route passes as requiredRole; UNDEFINED for the
\* routes that are not wrapped in AuthWrapper.
RequiredRole(p) ==
    IF Len(p) = 0 THEN UNDEFINED
    ELSE CASE p[1] = "dashboard" -> ESTUDANTE
           [] p[1] = "admin" -> ADMIN
           [] p[1] = "mentor" -> MENTOR
           [] OTHER -> UNDEFINED

IsGuarded(p) == RequiredRole(p) # UNDEFINED

\* The element <Routes> renders for location p.
RouteElement(p) ==
    IF ~authChecked THEN Nothing
    ELSE IF p = RootPath THEN Page("Index")
    ELSE IF p = LoginPath
         THEN (IF isAuthenticated THEN Navigate(getDashboardPath) ELSE Page("Login"))
    ELSE IF p = <<"registro">> THEN Page("Register")
    ELSE IF p = <<"logout">> THEN Page("Logout")
    ELSE IF p[1] = "dashboard" THEN AuthWrapper(Page("StudentRoutes"), ESTUDANTE)
    ELSE IF p[1] = "admin" THEN AuthWrapper(Page("AdminRoutes"), ADMIN)
    ELSE IF p[1] = "mentor" THEN AuthWrapper(Page("MentorRoutes"), MENTOR)
    ELSE Navigate(IF isAuthenticated THEN getDashboardPath ELSE LoginPath)

\* ------------------------------------------------------------------------
\* Session store and router: operations
\* ------------------------------------------------------------------------
InitAuth ==
    /\ MessagingUnmounted
    /\ MentoriaUnmounted
    /\ storage \in [token : StoredTokens, userRole : StoredRoles, userId : StoredUserIds]
    /\ authChecked = FALSE
    /\ isAuthenticated = FALSE
    /\ userRole = NULL
    /\ path \in Paths
    /\ rendered = Nothing

\* The mount effect of App.
AuthInitEffect ==
    /\ ~authChecked
    /\ isAuthenticated' = Truthy(storage.token)
    /\ userRole' = OptToUpperCase(storage.userRole)
    /\ authChecked' = TRUE
    /\ UNCHANGED <<storage, path>>
    /\ UNCHANGED notAuthVars
    /\ rendered' = RouteElement(path)'

\* Login's onLoginSuccess(token, role).
onLoginSuccess(token, role) ==
    /\ rendered = Page("Login")
    /\ storage' = [storage EXCEPT !.token = token, !.userRole = role]
    /\ isAuthenticated' = TRUE
    /\ userRole' = ToUpperCase(role)
    /\ UNCHANGED <<authChecked, path>>
    /\ UNCHANGED notAuthVars
    /\ rendered' = RouteElement(path)'

\* A mutant of Logout: the role is kept, in storage and in the state.
Logout_KeepsRole ==
    /\ rendered = Page("Logout")
    /\ storage' = [storage EXCEPT !.token = NULL, !.userId = NULL]
    /\ isAuthenticated' = FALSE
    /\ path' = RootPath
    /\ UNCHANGED <<authChecked, userRole>>
    /\ UNCHANGED notAuthVars
    /\ rendered' = RouteElement(path)'

\* A mutant of Logout: setIsAuthenticated(false) is left out.
Logout_KeepsAuthenticated ==
    /\ rendered = Page("Logout")
    /\ storage' = [token |-> NULL, userRole |-> NULL, userId |-> NULL]
    /\ userRole' = NULL
    /\ path' = RootPath
    /\ UNCHANGED <<authChecked, isAuthenticated>>
    /\ UNCHANGED notAuthVars
    /\ rendered' = RouteElement(path)'

\* The effect of the Logout element, rendered at /logout.
Logout ==
    /\ rendered = Page("Logout")
    /\ storage' = [token |-> NULL, userRole |-> NULL, userId |-> NULL]
    /\ isAuthenticated' = FALSE
    /\ userRole' = NULL
    /\ path' = RootPath
    /\ UNCHANGED authChecked
    /\ UNCHANGED notAuthVars
    /\ rendered' = RouteElement(path)'

\* The user follows a link or types an address.
Visit(p) ==
    /\ authChecked
    /\ p # path
    /\ path' = p
    /\ UNCHANGED <<storage, authChecked, isAuthenticated, userRole>>
    /\ UNCHANGED notAuthVars
    /\ rendered' = RouteElement(path)'

\* A rendered <Navigate to=... replace/> changes the location.
FollowNavigate ==
    /\ rendered.kind = "navigate"
    /\ rendered.arg # path
    /\ path' = rendered.arg
    /\ UNCHANGED <<storage, authChecked, isAuthenticated, userRole>>
    /\ UNCHANGED notAuthVars
    /\ rendered' = RouteElement(path)'

\* The page is loaded again: React state starts over, storage is kept.
Reload ==
    /\ authChecked
    /\ authChecked' = FALSE
    /\ isAuthenticated' = FALSE
    /\ userRole' = NULL
    /\ rendered' = Nothing
    /\ UNCHANGED <<storage, path>>
    /\ UNCHANGED notAuthVars

NextAuth ==
    \/ AuthInitEffect
    \/ \E token \in Tokens, role \in RoleStrings : onLoginSuccess(token, role)
    \/ Logout
    \/ \E p \in Paths : Visit(p)
    \/ FollowNavigate
    \/ Reload

SpecAuth == InitAuth /\ [][NextAuth]_vars

\* ------------------------------------------------------------------------
\* Route guard: properties
\* ------------------------------------------------------------------------

\* C1: on a guarded route the guard renders its children exactly when the
\* initial storage read has completed, a token is present (isAuthenticated)
\* and the current role equals the route's requiredRole; in every other
\* state it renders nothing or a redirect.
C1_GuardRendersChildrenOnlyWhenAuthorized ==
    IsGuarded(path) =>
        /\ rendered.kind = "page" <=>
              /\ authChecked
              /\ isAuthenticated
              /\ Truthy(storage.token)
              /\ userRole = RequiredRole(path)
        /\ rendered.kind \in {"page", "null", "navigate"}
        /\ rendered.kind = "page" =>
              rendered.arg \in {<<"StudentRoutes">>, <<"AdminRoutes">>, <<"MentorRoutes">>}

\* C1 witness: a guarded route shows its children to a session of the role
\* it requires.
C1_Witness ==
    /\ path = <<"admin", "usuarios">>
    /\ rendered = Page("AdminRoutes")
    /\ userRole = ADMIN

\* C2: an authenticated session whose role is ESTUDANTE, ADMIN or MENTOR,
\* at a guarded route that requires another role, is redirected to its own
\* dashboard root and never to /login.
C2_WrongRoleRedirectsToOwnDashboard ==
    ( /\ authChecked
      /\ isAuthenticated
      /\ IsGuarded(path)
      /\ userRole \in {ESTUDANTE, ADMIN, MENTOR}
      /\ userRole # RequiredRole(path) )
    => /\ rendered.kind = "navigate"
       /\ rendered.arg # LoginPath
       /\ userRole = ESTUDANTE => rendered.arg = <<"dashboard">>
       /\ userRole = ADMIN => rendered.arg = <<"admin">>
       /\ userRole = MENTOR => rendered.arg = <<"mentor">>

\* C2 witness: a MENTOR at a student-only route, sent to /mentor.
C2_Witness ==
    /\ isAuthenticated
    /\ userRole = MENTOR
    /\ path = <<"dashboard", "cursos">>
    /\ rendered = Navigate(<<"mentor">>)

\* ========================================================================
\* Messaging pages: StudentMessages (src/src/pages/student/Messages.tsx) and
\* MentorMessages (src/unnamed/part_000 563-990).  The two pages are the same
\* operations with the roles swapped, except where noted; `page` says which
\* one is mounted.
\* ========================================================================

\* Bounds of the backend's answers and of the clock.
MaxMsgs == 2
MaxRoster == 2
MaxClock == 1

Me == <<"u","1">>
Cp1 == <<"c","1">>
Cp2 == <<"c","2">>
Other == <<"x","1">>

Digits == <<"1","2","3","4","5","6","7","8","9">>

CounterpartRole(pg) == IF pg = "student" THEN "MENTOR" ELSE "ESTUDANTE"
OwnRole(pg) == IF pg = "student" THEN "ESTUDANTE" ELSE "MENTOR"

User(id, role) == [id |-> id, role |-> role]
NoUser == User(NULL, "none")
MeUser(pg) == User(Me, OwnRole(pg))

\* The users the current user exchanges messages with: two counterparts and
\* one user of a third role.
Parties(pg) ==
    { User(Cp1, CounterpartRole(pg)), User(Cp2, CounterpartRole(pg)),
      User(Other, "ADMIN") }

Message(from, to, content) ==
    [remetente |-> from, destinatario |-> to, content |-> content]

\* Received and sent lists of at most n messages; the i-th received message
\* has content "r<i>" and the i-th sent message "s<i>".
ReceivedLists(pg, n) ==
    UNION { { [i \in 1..k |-> Message(f[i], MeUser(pg), <<"r", Digits[i]>>)] :
                f \in [1..k -> Parties(pg)] } : k \in 0..n }

SentLists(pg, n) ==
    UNION { { [i \in 1..k |-> Message(MeUser(pg), f[i], <<"s", Digits[i]>>)] :
                f \in [1..k -> Parties(pg)] } : k \in 0..n }

\* Rosters: sequences of at most n distinct users.
Rosters(pg, n) ==
    UNION { { f \in [1..k -> Parties(pg)] :
                \A i, j \in 1..k : i # j => f[i] # f[j] } : k \in 0..n }

ErrNoUserId == <<"no-user-id">>
ErrLoadFailed == <<"load-failed">>
ErrNoneFound == <<"none-found">>

Ids(list) == { list[i].id : i \in DOMAIN list }

Reverse(s) == [i \in 1..Len(s) |-> s[Len(s) + 1 - i]]

\* A mutant of AllMessages: sent before received on both pages.
AllMessages_SentFirst(pg, received, sent) ==
    IF pg = "student" THEN sent \o received ELSE Reverse(sent \o received)

\* allMessages: [...receivedMessages, ...sentMessages], reversed on the
\* mentor page.
AllMessages(pg, received, sent) ==
    IF pg = "student" THEN received \o sent ELSE Reverse(received \o sent)

\* The party of a message that has the counterpart's role, or NoUser.
ChatCounterpart(message, role) ==
    IF message.remetente.role = role THEN message.remetente
    ELSE IF message.destinatario.role = role THEN message.destinatario
    ELSE NoUser

\* mentorMap / studentMap, as the sequence of its values in insertion order:
\* the first message of a counterpart makes its entry, later ones are skipped.
RECURSIVE BuildChatMap(_, _, _)
BuildChatMap(messages, role, map) ==
    IF messages = <<>> THEN map
    ELSE LET message == Head(messages)
             cp == ChatCounterpart(message, role)
             entry == [id |-> cp.id, lastMessage |-> message.content,
                       lastMessageTime |-> NoTime]
         IN  BuildChatMap(Tail(messages), role,
                 IF cp # NoUser /\ cp.role = role /\ cp.id \notin Ids(map)
                 THEN Append(map, entry) ELSE map)

\* The comparator of the sort: entries without a time go last, the others by
\* time, latest first.
CompareChats(a, b) ==
    IF a.lastMessageTime = NoTime /\ b.lastMessageTime = NoTime THEN 0
    ELSE IF a.lastMessageTime = NoTime THEN 1
    ELSE IF b.lastMessageTime = NoTime THEN -1
    ELSE b.lastMessageTime - a.lastMessageTime

\* Array.prototype.sort is stable: an entry goes after the entries that do
\* not compare greater than it.
InsertChat(sorted, e) ==
    LET k == Cardinality({ i \in DOMAIN sorted : CompareChats(sorted[i], e) <= 0 })
    IN  SubSeq(sorted, 1, k) \o <<e>> \o SubSeq(sorted, k + 1, Len(sorted))

RECURSIVE SortChatsFrom(_, _)
SortChatsFrom(list, sorted) ==
    IF list = <<>> THEN sorted
    ELSE SortChatsFrom(Tail(list), InsertChat(sorted, Head(list)))

SortChats(list) == SortChatsFrom(list, <<>>)

\* The times new Date() gives to the n entries of the student's map, made
\* one after the other: the clock may tick between two of them.
Stamps(n) ==
    { f \in [1..n -> now..MaxClock] : \A i, j \in 1..n : i < j => f[i] <= f[j] }

\* A mutant of AvailableFromRoster: counterparts with history are kept.
AvailableFromRoster_KeepsWithChats(roster, withList, role) ==
    LET Keep(u) == u.role = role
        kept == SelectSeq(roster, Keep)
    IN  [i \in DOMAIN kept |->
            [id |-> kept[i].id, lastMessage |-> UNDEFINED, lastMessageTime |-> NoTime]]

AvailableFromRoster_AnyRole(roster, withList, role) ==
    LET Keep(u) == u.id \notin Ids(withList)
        kept == SelectSeq(roster, Keep)
    IN  [i \in DOMAIN kept |->
            [id |-> kept[i].id, lastMessage |-> UNDEFINED, lastMessageTime |-> NoTime]]

\* availableMentorsList / studentsWithoutChatsList
AvailableFromRoster(roster, withList, role) ==
    LET Keep(u) == u.role = role /\ u.id \notin Ids(withList)
        kept == SelectSeq(roster, Keep)
    IN  [i \in DOMAIN kept |->
            [id |-> kept[i].id, lastMessage |-> UNDEFINED, lastMessageTime |-> NoTime]]

\* What the load and the panel leave alone.
appVars == <<authVars, schedVars>>
serverVars == <<page, srvReceived, srvSent, srvRoster>>

\* The mount effect of the page: fetchData starts, or the user id is missing.
LoadStart ==
    /\ page # "none"
    /\ loadPc = "idle"
    /\ IF Truthy(storage.userId)
       THEN /\ loading' = TRUE
            /\ error' = NULL
            /\ loadPc' = "recv"
       ELSE /\ error' = ErrNoUserId
            /\ loading' = FALSE
            /\ loadPc' = "done"
    /\ UNCHANGED <<withChats, available, selected, showChatOnMobile, searchQuery, sends>>
    /\ UNCHANGED <<appVars, now, serverVars, panelVars>>

\* getReceivedMessages, then getSentMessages, answers.
LoadFetchOk ==
    /\ loadPc \in {"recv", "sent"}
    /\ loadPc' = IF loadPc = "recv" THEN "sent" ELSE "roster"
    /\ UNCHANGED <<loading, error, withChats, available, selected,
                   showChatOnMobile, searchQuery, sends>>
    /\ UNCHANGED <<appVars, now, serverVars, panelVars>>

LoadFetchFail_KeepsLoading ==
    /\ loadPc \in {"recv", "sent", "roster"}
    /\ error' = ErrLoadFailed
    /\ loadPc' = "done"
    /\ UNCHANGED <<loading, withChats, available, selected, showChatOnMobile, searchQuery, sends>>
    /\ UNCHANGED <<appVars, now, serverVars, panelVars>>

\* One of the three fetches fails: the catch and the finally of fetchData.
LoadFetchFail ==
    /\ loadPc \in {"recv", "sent", "roster"}
    /\ error' = ErrLoadFailed
    /\ loading' = FALSE
    /\ loadPc' = "done"
    /\ UNCHANGED <<withChats, available, selected, showChatOnMobile, searchQuery, sends>>
    /\ UNCHANGED <<appVars, now, serverVars, panelVars>>

\* The roster fetch answers: the two lists are built and set.
LoadReconcile ==
    /\ loadPc = "roster"
    /\ LET role == CounterpartRole(page)
           map == BuildChatMap(AllMessages(page, srvReceived, srvSent), role, <<>>)
       IN  \E stamp \in Stamps(Len(map)) :
             LET timed == IF page = "student"
                          THEN [i \in DOMAIN map |->
                                   [map[i] EXCEPT !.lastMessageTime = stamp[i]]]
                          ELSE map
                 withList == SortChats(timed)
                 availList == AvailableFromRoster(srvRoster, withList, role)
             IN  /\ withChats' = withList
                 /\ available' = availList
                 /\ error' = IF withList = <<>> /\ availList = <<>>
                              THEN ErrNoneFound ELSE error
                 /\ now' = IF page = "student" /\ map # <<>>
                            THEN stamp[Len(map)] ELSE now
                 /\ page = "mentor" => \A i \in DOMAIN stamp : stamp[i] = now
    /\ loading' = FALSE
    /\ loadPc' = "done"
    /\ UNCHANGED <<selected, showChatOnMobile, searchQuery, sends>>
    /\ UNCHANGED <<appVars, serverVars, panelVars>>

\* The application state a messaging page is mounted in.
AppAtPage(pg) ==
    /\ storage \in [token : {<<"t","k","1">>},
                    userRole : {IF pg = "student" THEN ESTUDANTE ELSE MENTOR},
                    userId : StoredUserIds]
    /\ authChecked = TRUE
    /\ isAuthenticated = TRUE
    /\ userRole = (IF pg = "student" THEN ESTUDANTE ELSE MENTOR)
    /\ path = (IF pg = "student" THEN <<"dashboard", "mensagens">>
                                 ELSE <<"mentor", "mensagens">>)
    /\ rendered = Page(IF pg = "student" THEN "StudentRoutes" ELSE "MentorRoutes")
    /\ MentoriaUnmounted

\* A messaging page as it is constructed, before its mount effect.
MessagingMounted(time) ==
    /\ now = time
    /\ loadPc = "idle"
    /\ loading = TRUE
    /\ error = NULL
    /\ withChats = <<>>
    /\ available = <<>>
    /\ selected = NoSelection
    /\ showChatOnMobile = FALSE
    /\ searchQuery = <<>>
    /\ sends = EmptyBag
    /\ PanelUnmounted

\* The load of a messaging page, for every answer of the backend.
InitLoad ==
    /\ page \in {"student", "mentor"}
    /\ AppAtPage(page)
    /\ srvReceived \in ReceivedLists(page, MaxMsgs)
    /\ srvSent \in SentLists(page, MaxMsgs)
    /\ srvRoster \in Rosters(page, MaxRoster)
    /\ storage.userId = NULL => srvReceived = <<>> /\ srvSent = <<>> /\ srvRoster = <<>>
    /\ MessagingMounted(0)

NextLoad ==
    \/ LoadStart
    \/ LoadFetchOk
    \/ LoadFetchFail
    \/ LoadReconcile

SpecLoad == InitLoad /\ [][NextLoad]_vars

\* The load with a backend that settles every request: an awaited fetch is
\* answered or fails, and the continuation of fetchData then runs.
SpecLoadFair == SpecLoad /\ WF_vars(NextLoad)

\* ------------------------------------------------------------------------
\* Load: properties
\* ------------------------------------------------------------------------
Involves(message, id) == message.remetente.id = id \/ message.destinatario.id = id

\* The content of the first, and of the last, message of list involving id.
FirstContent(list, id) ==
    list[CHOOSE i \in DOMAIN list :
            /\ Involves(list[i], id)
            /\ \A j \in DOMAIN list : Involves(list[j], id) => i <= j].content

LastContent(list, id) ==
    list[CHOOSE i \in DOMAIN list :
            /\ Involves(list[i], id)
            /\ \A j \in DOMAIN list : Involves(list[j], id) => j <= i].content

\* fetchData has run to its end without a failure.
LoadedOk == loadPc = "done" /\ error \notin {ErrLoadFailed, ErrNoUserId}

\* C6, as claimed: once the lists are built, the lastMessage of each
\* counterpart is the content of the first message involving it in the order
\* sent-then-received.
C6_LastMessageFirstInSentThenReceived ==
    LoadedOk =>
        \A i \in DOMAIN withChats :
            withChats[i].lastMessage = FirstContent(srvSent \o srvReceived, withChats[i].id)

\* C6, amended: once the lists are built, the lastMessage of each counterpart
\* is, on the student page, the content of the first message involving it in
\* the order received-then-sent and, on the mentor page, the content of the
\* last message involving it in that order.
C6_LastMessageByConcatenationOrder ==
    LoadedOk =>
        \A i \in DOMAIN withChats :
            withChats[i].lastMessage =
                IF page = "student"
                THEN FirstContent(srvReceived \o srvSent, withChats[i].id)
                ELSE LastContent(srvReceived \o srvSent, withChats[i].id)

\* C6 witness: a counterpart with a received and a sent message, on the
\* mentor page, whose lastMessage is the sent one.
C6_Witness ==
    /\ LoadedOk
    /\ page = "mentor"
    /\ Len(srvReceived) = 2
    /\ Len(srvSent) = 2
    /\ \E i \in DOMAIN withChats :
          /\ withChats[i].id = Cp1
          /\ Involves(srvReceived[1], Cp1)
          /\ Involves(srvSent[2], Cp1)
          /\ withChats[i].lastMessage = <<"s", "2">>

\* ========================================================================
\* Messaging pages after the load: selection, the chat panel and sending.
\* The panel is CourseChat (src/src/components/CourseChat.tsx), the one the
\* mentor page mounts; the student page mounts its counterpart for the other
\* role with the same onSendMessage contract.  The panel followed here is
\* the one of the wide layout, mounted while a counterpart is selected.
\* ========================================================================

\* Bounds: the history the backend holds when the page is used, the calls
\* that may await the backend at once, and the length of the panel's list.
MaxHistory == 1
MaxInFlight == 2
MaxPanelMsgs == 2
MaxPanelFetches == 2

Voce == <<"V","o","c","e">>

\* What the user may type in the panel's input.
Inputs == { <<"o","i">>, <<" ">> }

\* String.prototype.trim, for strings of letters and spaces
RECURSIVE TrimStart(_)
TrimStart(s) == IF s # <<>> /\ Head(s) = " " THEN TrimStart(Tail(s)) ELSE s

Trim(s) == Reverse(TrimStart(Reverse(TrimStart(s))))

WithoutId(list, id) ==
    LET Keep(c) == c.id # id
    IN  SelectSeq(list, Keep)

\* {...selected, lastMessage: content, lastMessageTime: new Date()}
ChatAfterSend(sel, content, time) ==
    [sel EXCEPT !.lastMessage = content, !.lastMessageTime = time]

\* A mutant of AvailableAfterSend: the counterpart is not taken off the list.
AvailableAfterSend_Kept(pg, prev, withSnap, sel) == prev

\* setAvailableMentors / setStudentsWithoutChats after a successful send.
\* The student page decides on the mentorsWithChats its handler was made
\* with, of which it reads the ids: withSnap.
AvailableAfterSend(pg, prev, withSnap, sel) ==
    IF pg = "student"
    THEN (IF sel.id \notin withSnap THEN WithoutId(prev, sel.id) ELSE prev)
    ELSE WithoutId(prev, sel.id)

\* setMentorsWithChats / setStudentsWithChats after a successful send.
WithChatsAfterSend(pg, prev, withSnap, sel, content, time) ==
    IF pg = "student"
    THEN (IF sel.id \notin withSnap
          THEN <<ChatAfterSend(sel, content, time)>> \o prev
          ELSE <<ChatAfterSend(sel, content, time)>> \o WithoutId(prev, sel.id))
    ELSE <<ChatAfterSend(sel, content, time)>> \o WithoutId(prev, sel.id)

\* Whether the promise of the page's handleSendMessage rejects: its try/catch
\* logs a failed send and returns, so it never does.
PageSendRejects(ok) == FALSE

\* The panel's list once `await onSendMessage` is over: the catch of the
\* panel removes the optimistic message when the promise rejected.
PanelAfterSend(messages, ok, optimisticId) ==
    IF PageSendRejects(ok)
    THEN LET Keep(msg) == msg.id # optimisticId IN SelectSeq(messages, Keep)
    ELSE messages

\* chatMessages of fetchMessages, for the counterpart studentId
ChatMessages(pg, received, sent, studentId, time) ==
    LET Keep(msg) == msg.remetente.id = studentId \/ msg.destinatario.id = studentId
        allMessages == SelectSeq(received \o sent, Keep)
    IN  [i \in DOMAIN allMessages |->
            [id |-> time,
             user |-> IF allMessages[i].remetente.id = storage.userId
                      THEN Voce ELSE allMessages[i].remetente.id,
             content |-> allMessages[i].content]]

\* The panel's effect on [studentId, mentorId]: it runs when the panel mounts
\* and when the selected counterpart's id changes, and starts fetchMessages.
PanelEffect(oldSelected, newSelected) ==
    IF newSelected # NoSelection
       /\ (oldSelected = NoSelection \/ oldSelected.id # newSelected.id)
       /\ Truthy(storage.userId)
    THEN /\ panelLoading' = TRUE
         /\ panelFetches' = panelFetches (+) SetToBag({[studentId |-> newSelected.id]})
    ELSE UNCHANGED <<panelLoading, panelFetches>>

ListsShown == loadPc = "done" /\ ~loading /\ error = NULL

\* The names the backend gives the counterparts, and what is typed in the
\* search input.
NameOf(id) ==
    IF id = Cp1 THEN <<"A","n","a">>
    ELSE IF id = Cp2 THEN <<"B","i","a">>
    ELSE id
SearchInputs == { <<>>, <<"a","N">>, <<"b">> }

\* filteredMentorsWithChats / filteredAvailableMentors: the entries rendered.
MatchesSearch(c, query) ==
    Includes(ToLowerCase(NameOf(c.id)), ToLowerCase(query))

\* onChange of the search input.
SetSearchQuery(text) ==
    /\ page # "none"
    /\ text # searchQuery
    /\ searchQuery' = text
    /\ UNCHANGED <<loadPc, loading, error, withChats, available, selected,
                   showChatOnMobile, sends>>
    /\ UNCHANGED <<appVars, now, serverVars, panelVars>>

\* The click on an entry of the wide-viewport list: the selection alone.
SelectOnDesktop(c) ==
    /\ ListsShown
    /\ MatchesSearch(c, searchQuery)
    /\ \E i \in DOMAIN withChats \cup DOMAIN available :
          \/ i \in DOMAIN withChats /\ c = withChats[i]
          \/ i \in DOMAIN available /\ c = available[i]
    /\ selected.id # c.id => BagCardinality(panelFetches) < MaxPanelFetches
    /\ selected' = c
    /\ PanelEffect(selected, c)
    /\ UNCHANGED <<loadPc, loading, error, withChats, available, showChatOnMobile,
                   searchQuery, sends, panelMessages>>
    /\ UNCHANGED <<appVars, now, serverVars>>

Select_OnlyShowsChat(c) ==
    /\ ListsShown
    /\ MatchesSearch(c, searchQuery)
    /\ \E i \in DOMAIN withChats \cup DOMAIN available :
          \/ i \in DOMAIN withChats /\ c = withChats[i]
          \/ i \in DOMAIN available /\ c = available[i]
    /\ showChatOnMobile' = TRUE
    /\ UNCHANGED <<loadPc, loading, error, withChats, available, selected,
                   searchQuery, sends>>
    /\ UNCHANGED <<appVars, now, serverVars, panelVars>>

\* handleMentorSelect / handleStudentSelect: a click on an entry of a list.
Select(c) ==
    /\ ListsShown
    /\ MatchesSearch(c, searchQuery)
    /\ \E i \in DOMAIN withChats \cup DOMAIN available :
          \/ i \in DOMAIN withChats /\ c = withChats[i]
          \/ i \in DOMAIN available /\ c = available[i]
    /\ selected.id # c.id => BagCardinality(panelFetches) < MaxPanelFetches
    /\ selected' = c
    /\ showChatOnMobile' = TRUE
    /\ PanelEffect(selected, c)
    /\ UNCHANGED <<loadPc, loading, error, withChats, available, searchQuery,
                   sends, panelMessages>>
    /\ UNCHANGED <<appVars, now, serverVars>>

BackToList_ClearsSelection ==
    /\ showChatOnMobile
    /\ showChatOnMobile' = FALSE
    /\ selected' = NoSelection
    /\ UNCHANGED <<loadPc, loading, error, withChats, available, searchQuery, sends>>
    /\ UNCHANGED <<appVars, now, serverVars, panelVars>>

\* handleBackToList
BackToList ==
    /\ showChatOnMobile
    /\ showChatOnMobile' = FALSE
    /\ UNCHANGED <<loadPc, loading, error, withChats, available, selected,
                   searchQuery, sends>>
    /\ UNCHANGED <<appVars, now, serverVars, panelVars>>

\* fetchMessages of the panel answers: setMessages replaces the list.
PanelFetchOk(fetch) ==
    /\ BagIn(fetch, panelFetches)
    /\ panelMessages' = ChatMessages(page, srvReceived, srvSent, fetch.studentId, now)
    /\ panelLoading' = FALSE
    /\ panelFetches' = panelFetches (-) SetToBag({fetch})
    /\ UNCHANGED <<loadPc, loading, error, withChats, available, selected,
                   showChatOnMobile, searchQuery, sends>>
    /\ UNCHANGED <<appVars, now, serverVars>>

\* fetchMessages of the panel fails: the catch logs, the finally runs.
PanelFetchFail(fetch) ==
    /\ BagIn(fetch, panelFetches)
    /\ panelLoading' = FALSE
    /\ panelFetches' = panelFetches (-) SetToBag({fetch})
    /\ UNCHANGED <<loadPc, loading, error, withChats, available, selected,
                   showChatOnMobile, searchQuery, sends, panelMessages>>
    /\ UNCHANGED <<appVars, now, serverVars>>

\* The panel's handleSendMessage, up to its await: the optimistic message is
\* appended and the page's handleSendMessage is called, which calls the
\* backend with the selection and the lists of the current render.
PanelSubmit(newMessage) ==
    /\ selected # NoSelection
    /\ IF ~Truthy(Trim(newMessage)) \/ ~Truthy(storage.userId)
       THEN UNCHANGED <<panelMessages, sends>>
       ELSE /\ BagCardinality(sends) < MaxInFlight
            /\ Len(panelMessages) < MaxPanelMsgs
            /\ panelMessages' = Append(panelMessages,
                   [id |-> now, user |-> Voce, content |-> newMessage])
            /\ sends' = sends (+) SetToBag({
                   [sel |-> selected, withSnap |-> Ids(withChats),
                    content |-> newMessage, optimisticId |-> now,
                    lenBefore |-> Len(panelMessages)]})
    /\ UNCHANGED <<loadPc, loading, error, withChats, available, selected,
                   showChatOnMobile, searchQuery, panelLoading, panelFetches>>
    /\ UNCHANGED <<appVars, now, serverVars>>

\* sendMessage answers: the page moves the counterpart to the head of the
\* with-chats list and selects it; the panel's await returns.
SendOk(req) ==
    /\ BagIn(req, sends)
    /\ (selected.id # req.sel.id) => BagCardinality(panelFetches) < MaxPanelFetches
    /\ available' = AvailableAfterSend(page, available, req.withSnap, req.sel)
    /\ withChats' = WithChatsAfterSend(page, withChats, req.withSnap, req.sel,
                                       req.content, now)
    /\ selected' = ChatAfterSend(req.sel, req.content, now)
    /\ PanelEffect(selected, req.sel)
    /\ panelMessages' = PanelAfterSend(panelMessages, TRUE, req.optimisticId)
    /\ sends' = sends (-) SetToBag({req})
    /\ UNCHANGED <<loadPc, loading, error, showChatOnMobile, searchQuery>>
    /\ UNCHANGED <<appVars, now, serverVars>>

\* sendMessage fails: the page's catch logs it; the panel's await returns.
SendFail(req) ==
    /\ BagIn(req, sends)
    /\ panelMessages' = PanelAfterSend(panelMessages, FALSE, req.optimisticId)
    /\ sends' = sends (-) SetToBag({req})
    /\ UNCHANGED <<loadPc, loading, error, withChats, available, selected,
                   showChatOnMobile, searchQuery, panelLoading, panelFetches>>
    /\ UNCHANGED <<appVars, now, serverVars>>

\* A messaging page in use: the backend holds a short history and a roster of
\* the two counterparts and a user of another role.
InitMsg ==
    /\ page \in {"student", "mentor"}
    /\ AppAtPage(page)
    /\ srvReceived \in ReceivedLists(page, MaxHistory)
    /\ srvSent = <<>>
    /\ srvRoster = << User(Cp1, CounterpartRole(page)), User(Other, "ADMIN"),
                      User(Cp2, CounterpartRole(page)) >>
    /\ storage.userId = NULL => srvReceived = <<>>
    /\ MessagingMounted(MaxClock)

NextMsg ==
    \/ LoadStart
    \/ LoadFetchOk
    \/ LoadFetchFail
    \/ LoadReconcile
    \/ \E c \in { withChats[i] : i \in DOMAIN withChats }
                 \cup { available[i] : i \in DOMAIN available } : Select(c)
    \/ \E c \in { withChats[i] : i \in DOMAIN withChats }
                 \cup { available[i] : i \in DOMAIN available } : SelectOnDesktop(c)
    \/ BackToList
    \/ \E fetch \in BagToSet(panelFetches) : PanelFetchOk(fetch)
    \/ \E fetch \in BagToSet(panelFetches) : PanelFetchFail(fetch)
    \/ \E newMessage \in Inputs : PanelSubmit(newMessage)
    \/ \E req \in BagToSet(sends) : SendOk(req)
    \/ \E req \in BagToSet(sends) : SendFail(req)

SpecMsg == InitMsg /\ [][NextMsg]_vars

\* The panel under changes of the selected counterpart, with a backend that
\* answers every fetch of the panel and no message being sent.
NextPanel ==
    \/ LoadStart
    \/ LoadFetchOk
    \/ LoadFetchFail
    \/ LoadReconcile
    \/ \E c \in { withChats[i] : i \in DOMAIN withChats }
                 \cup { available[i] : i \in DOMAIN available } : Select(c)
    \/ BackToList
    \/ \E fetch \in BagToSet(panelFetches) : PanelFetchOk(fetch)

SpecPanel == InitMsg /\ [][NextPanel]_vars

\* The lists of a page under search, selection and the back action.
NextNav ==
    \/ LoadStart
    \/ LoadFetchOk
    \/ LoadFetchFail
    \/ LoadReconcile
    \/ \E text \in SearchInputs : SetSearchQuery(text)
    \/ \E c \in { withChats[i] : i \in DOMAIN withChats }
                 \cup { available[i] : i \in DOMAIN available } : Select(c)
    \/ \E c \in { withChats[i] : i \in DOMAIN withChats }
                 \cup { available[i] : i \in DOMAIN available } : SelectOnDesktop(c)
    \/ BackToList
    \/ \E fetch \in BagToSet(panelFetches) : PanelFetchOk(fetch)
    \/ \E fetch \in BagToSet(panelFetches) : PanelFetchFail(fetch)

SpecNav == InitMsg /\ [][NextNav]_vars


\* ------------------------------------------------------------------------
\* The session scheduling page: MentorMentoria (src/unnamed/part_000)
\* ------------------------------------------------------------------------
MaxSessions == 4

\* The date texts of the backend's sessions: a day, the same day with a time,
\* the next day, a month and day out of range, a word, the empty string.
Nov3 == <<"2","0","2","6","-","1","1","-","0","3">>
Nov3Evening == Nov3 \o <<"T","1","8",":","3","0">>
Nov4 == <<"2","0","2","6","-","1","1","-","0","4">>
OutOfRange == <<"2","0","2","6","-","1","3","-","4","0">>
Amanha == <<"a","m","a","n","h","a">>

DecimalDigits == <<"0","1","2","3","4","5","6","7","8","9">>
IsDigit(c) == \E i \in DOMAIN DecimalDigits : DecimalDigits[i] = c
DigitValue(c) == (CHOOSE i \in DOMAIN DecimalDigits : DecimalDigits[i] = c) - 1
AllDigits(s, from, to) == \A i \in from..to : IsDigit(s[i])
Number(s, from, to) ==
    LET RECURSIVE Value(_, _)
        Value(i, acc) == IF i > to THEN acc
                         ELSE Value(i + 1, acc * 10 + DigitValue(s[i]))
    IN  Value(from, 0)

IsLeapYear(y) == (y % 4 = 0 /\ y % 100 # 0) \/ y % 400 = 0
DaysInMonth(y, m) ==
    CASE m = 2 -> (IF IsLeapYear(y) THEN 29 ELSE 28)
      [] m \in {4, 6, 9, 11} -> 30
      [] OTHER -> 31

\* date-fns parseISO, for the texts YYYY-MM-DD and YYYY-MM-DDTHH:mm, read in
\* local time; any other argument gives an Invalid Date (or throws, which
\* every caller catches and treats as an invalid date).
parseISO(argument) ==
    IF argument \in {NULL, UNDEFINED} THEN InvalidDate
    ELSE IF ~( /\ Len(argument) \in {10, 16}
               /\ AllDigits(argument, 1, 4) /\ argument[5] = "-"
               /\ AllDigits(argument, 6, 7) /\ argument[8] = "-"
               /\ AllDigits(argument, 9, 10)
               /\ Len(argument) = 16 =>
                    /\ argument[11] = "T"
                    /\ AllDigits(argument, 12, 13) /\ argument[14] = ":"
                    /\ AllDigits(argument, 15, 16) )
    THEN InvalidDate
    ELSE LET y == Number(argument, 1, 4)
             m == Number(argument, 6, 7)
             d == Number(argument, 9, 10)
             hh == IF Len(argument) = 16 THEN Number(argument, 12, 13) ELSE 0
             mm == IF Len(argument) = 16 THEN Number(argument, 15, 16) ELSE 0
         IN  IF /\ m \in 1..12
                /\ d \in 1..DaysInMonth(y, m)
                /\ hh \in 0..23
                /\ mm \in 0..59
             THEN DateOf(y, m, d, hh * 60 + mm)
             ELSE InvalidDate

isValid_Always(d) == TRUE

isValid(d) == d.kind = "date"

isSameDay(dateLeft, dateRight) ==
    /\ isValid(dateLeft) /\ isValid(dateRight)
    /\ dateLeft.year = dateRight.year
    /\ dateLeft.month = dateRight.month
    /\ dateLeft.day = dateRight.day

getDate(d) == d.day
getMonth(d) == d.month - 1
getFullYear(d) == d.year

\* A mutant of toDateString: the time of day is kept in the text.
toDateString_KeepsTime(d) == <<d.year, d.month, d.day, d.minutes>>

\* Date.prototype.toDateString: the text of the day, without the time.
toDateString(d) == <<d.year, d.month, d.day, 0>>

\* new Date(dateStr) of such a text.
NewDate(dateStr) == DateOf(dateStr[1], dateStr[2], dateStr[3], dateStr[4])

\* eventMap of updateCalendarEvents: the entries of the Map, in insertion
\* order, after the sessions from index i on.
RECURSIVE EventMap(_, _, _)
EventMap(sessions, i, entries) ==
    IF i > Len(sessions) THEN entries
    ELSE LET session == sessions[i]
             sessionDate == parseISO(session.date)
         IN  IF ~Truthy(session.date) \/ ~isValid(sessionDate)
             THEN EventMap(sessions, i + 1, entries)
             ELSE LET dateStr == toDateString(sessionDate)
                      at == { k \in DOMAIN entries : entries[k].key = dateStr }
                  IN  IF at = {}
                      THEN EventMap(sessions, i + 1,
                                    Append(entries, [key |-> dateStr, count |-> 1]))
                      ELSE EventMap(sessions, i + 1,
                                    [k \in DOMAIN entries |->
                                        IF k \in at
                                        THEN [entries[k] EXCEPT !.count = @ + 1]
                                        ELSE entries[k]])

\* updateCalendarEvents: the value it gives to setCalendarEvents.
updateCalendarEvents(sessions) ==
    LET entries == EventMap(sessions, 1, <<>>)
    IN  [k \in DOMAIN entries |->
            [date |-> NewDate(entries[k].key), sessions |-> entries[k].count]]

\* filterSessionsByDate: the value it gives to setFilteredSessions.
filterSessionsByDate_IgnoresDay(sessions, selectedDate) ==
    IF selectedDate = UndefinedDate THEN sessions
    ELSE LET OnDay(session) == isValid(parseISO(session.date))
         IN  SelectSeq(sessions, OnDay)

filterSessionsByDate(sessions, selectedDate) ==
    IF selectedDate = UndefinedDate THEN sessions
    ELSE LET OnDay(session) ==
                 LET sessionDate == parseISO(session.date)
                 IN  isValid(sessionDate) /\ isSameDay(sessionDate, selectedDate)
         IN  SelectSeq(sessions, OnDay)

EventOn(event, day) ==
    /\ getDate(event.date) = getDate(day)
    /\ getMonth(event.date) = getMonth(day)
    /\ getFullYear(event.date) = getFullYear(day)

isDayWithSession(events, day) ==
    IF day = UndefinedDate THEN FALSE
    ELSE \E k \in DOMAIN events : EventOn(events[k], day)

getSessionCount(events, day) ==
    IF day = UndefinedDate THEN 0
    ELSE LET found == { k \in DOMAIN events : EventOn(events[k], day) }
         IN  IF found = {} THEN 0
             ELSE LET first == CHOOSE k \in found : \A j \in found : k <= j
                  IN  events[first].sessions


\* The backend's sessions: the mentor's own, over the date texts and a
\* missing date, and a session of another mentor.
CHAT == "CHAT"
CHAMADA_DE_VIDEO == "CHAMADA_DE_VIDEO"
SessionId(i) == <<"s", Digits[i]>>
SessionDates == { Nov3, Nov3Evening, Nov4, OutOfRange, Amanha, <<>>, UNDEFINED }
SessionChoices ==
    [mentorId : {Me}, date : SessionDates] \cup [mentorId : {Other}, date : {Nov3}]
SessionLists(n) ==
    UNION { { [i \in 1..k |-> Session(SessionId(i), choice[i].mentorId,
                                      choice[i].date, CHAT, NULL)]
              : choice \in [1..k -> SessionChoices] } : k \in 0..n }

\* new Date() at the construction of the page, and the days of the calendar.
Today == DateOf(2026, 11, 3, 600)
CalendarDays == { DateOf(2026, 11, 3, 0), DateOf(2026, 11, 4, 0), DateOf(2026, 11, 5, 0) }

\* The page shows its lists and buttons; no dialog covers them.
SessionsShown == ~sessionsLoading
NoDialog == ~showDeleteDialog /\ ~showEditLinkDialog
Visible(session) == \E i \in DOMAIN filteredSessions : filteredSessions[i] = session

WithoutSession(sessions, sessionId) ==
    LET Keep(s) == s.id # sessionId
    IN  SelectSeq(sessions, Keep)

\* A mutant of CalendarAfterDelete: the deleted session is still counted.
CalendarAfterDelete_NotRemoved(closureSessions, sessionId) ==
    updateCalendarEvents(closureSessions)

\* updateCalendarEvents(mentoringSessions.filter(s => s.id !== sessionId)):
\* mentoringSessions is the list of the render that made the handler.
CalendarAfterDelete(closureSessions, sessionId) ==
    updateCalendarEvents(WithoutSession(closureSessions, sessionId))

\* The mount effect: fetchSessions starts.
FetchStart ==
    /\ fetchPc = "idle"
    /\ sessionsLoading' = TRUE
    /\ fetchPc' = "sessions"
    /\ UNCHANGED <<srvSessions, date, mentoringSessions, filteredSessions,
                   activeSession, calendarEvents, showDeleteDialog,
                   sessionToDelete, isDeleting, showEditLinkDialog,
                   sessionToEdit, newLink, isUpdatingLink, toast, opened,
                   toastActions, deletes, edits>>
    /\ UNCHANGED notSchedVars

\* getAllSessions answers: the mentor's sessions are kept, the calendar is
\* recomputed, and the effect on [date, mentoringSessions] filters the list.
FetchOk ==
    /\ fetchPc = "sessions"
    /\ LET OfMentor(session) == session.mentorId = storage.userId
           mentorSessions == SelectSeq(srvSessions, OfMentor)
       IN  /\ mentoringSessions' = mentorSessions
           /\ calendarEvents' = updateCalendarEvents(mentorSessions)
           /\ filteredSessions' = filterSessionsByDate(mentorSessions, date)
    /\ sessionsLoading' = FALSE
    /\ fetchPc' = "done"
    /\ UNCHANGED <<srvSessions, date, activeSession, showDeleteDialog,
                   sessionToDelete, isDeleting, showEditLinkDialog,
                   sessionToEdit, newLink, isUpdatingLink, toast, opened,
                   toastActions, deletes, edits>>
    /\ UNCHANGED notSchedVars

\* getAllSessions fails: the catch shows a toast, the finally runs.
FetchFail ==
    /\ fetchPc = "sessions"
    /\ toast' = "Erro ao carregar sessoes de mentoria"
    /\ sessionsLoading' = FALSE
    /\ fetchPc' = "done"
    /\ UNCHANGED <<srvSessions, date, mentoringSessions, filteredSessions,
                   activeSession, calendarEvents, showDeleteDialog,
                   sessionToDelete, isDeleting, showEditLinkDialog,
                   sessionToEdit, newLink, isUpdatingLink, opened,
                   toastActions, deletes, edits>>
    /\ UNCHANGED notSchedVars

\* onSelect of the calendar: setDate, then the effect filters the list.
SelectDay(selectedDate) ==
    /\ SessionsShown /\ NoDialog
    /\ date' = selectedDate
    /\ filteredSessions' = filterSessionsByDate(mentoringSessions, selectedDate)
    /\ UNCHANGED <<srvSessions, fetchPc, mentoringSessions, activeSession,
                   calendarEvents, sessionsLoading, showDeleteDialog,
                   sessionToDelete, isDeleting, showEditLinkDialog,
                   sessionToEdit, newLink, isUpdatingLink, toast, opened,
                   toastActions, deletes, edits>>
    /\ UNCHANGED notSchedVars

\* A mutant of HasActiveSession: a chat is started whatever is active.
HasActiveSession_Never(active) == FALSE

\* if (activeSession) of handleStartMentoring
HasActiveSession(active) == Truthy(active)

\* handleStartMentoring, from the button of a visible session.  The toast of
\* a started chat holds handleEndSession of this render.
StartMentoring(session) ==
    /\ SessionsShown /\ NoDialog
    /\ Visible(session)
    /\ IF session.type = CHAMADA_DE_VIDEO
       THEN IF ~Truthy(session.link) \/ ~Truthy(Trim(session.link))
            THEN /\ toast' = "Link da chamada nao disponivel!"
                 /\ UNCHANGED <<opened, activeSession, toastActions>>
            ELSE /\ opened' = session.link
                 /\ UNCHANGED <<toast, activeSession, toastActions>>
       ELSE IF HasActiveSession(activeSession)
            THEN /\ toast' = "Voce ja possui uma sessao ativa!"
                 /\ UNCHANGED <<opened, activeSession, toastActions>>
            ELSE /\ activeSession' = session.id
                 /\ toast' = "Chat iniciado!"
                 /\ toastActions' = toastActions \cup
                        {[sessionId |-> session.id, sessions |-> mentoringSessions]}
                 /\ UNCHANGED opened
    /\ UNCHANGED <<srvSessions, fetchPc, date, mentoringSessions,
                   filteredSessions, calendarEvents, sessionsLoading,
                   showDeleteDialog, sessionToDelete, isDeleting,
                   showEditLinkDialog, sessionToEdit, newLink,
                   isUpdatingLink, deletes, edits>>
    /\ UNCHANGED notSchedVars

\* The action "Encerrar chat" of a toast: handleEndSession, up to its await.
ToastEndSession(action) ==
    /\ action \in toastActions
    /\ toastActions' = toastActions \ {action}
    /\ deletes' = deletes \cup
           {[kind |-> "end", id |-> action.sessionId, sessions |-> action.sessions]}
    /\ UNCHANGED <<srvSessions, fetchPc, date, mentoringSessions,
                   filteredSessions, activeSession, calendarEvents,
                   sessionsLoading, showDeleteDialog, sessionToDelete,
                   isDeleting, showEditLinkDialog, sessionToEdit, newLink,
                   isUpdatingLink, toast, opened, edits>>
    /\ UNCHANGED notSchedVars

\* deleteSession of handleEndSession answers.
EndSessionOk(req) ==
    /\ req \in deletes /\ req.kind = "end"
    /\ activeSession' = NULL
    /\ mentoringSessions' = WithoutSession(mentoringSessions, req.id)
    /\ calendarEvents' = CalendarAfterDelete(req.sessions, req.id)
    /\ filteredSessions' = filterSessionsByDate(mentoringSessions', date)
    /\ toast' = "Sessao encerrada com sucesso!"
    /\ deletes' = deletes \ {req}
    /\ UNCHANGED <<srvSessions, fetchPc, date, sessionsLoading,
                   showDeleteDialog, sessionToDelete, isDeleting,
                   showEditLinkDialog, sessionToEdit, newLink,
                   isUpdatingLink, opened, toastActions, edits>>
    /\ UNCHANGED notSchedVars

EndSessionFail_ClearsActive(req) ==
    /\ req \in deletes /\ req.kind = "end"
    /\ activeSession' = NULL
    /\ toast' = "Erro ao encerrar sessao"
    /\ deletes' = deletes \ {req}
    /\ UNCHANGED <<srvSessions, fetchPc, date, mentoringSessions,
                   filteredSessions, calendarEvents,
                   sessionsLoading, showDeleteDialog, sessionToDelete,
                   isDeleting, showEditLinkDialog, sessionToEdit, newLink,
                   isUpdatingLink, opened, toastActions, edits>>
    /\ UNCHANGED notSchedVars

\* deleteSession of handleEndSession fails.
EndSessionFail(req) ==
    /\ req \in deletes /\ req.kind = "end"
    /\ toast' = "Erro ao encerrar sessao"
    /\ deletes' = deletes \ {req}
    /\ UNCHANGED <<srvSessions, fetchPc, date, mentoringSessions,
                   filteredSessions, activeSession, calendarEvents,
                   sessionsLoading, showDeleteDialog, sessionToDelete,
                   isDeleting, showEditLinkDialog, sessionToEdit, newLink,
                   isUpdatingLink, opened, toastActions, edits>>
    /\ UNCHANGED notSchedVars

\* handleRefuseSession, from the button of a visible session.
RefuseSession(session) ==
    /\ SessionsShown /\ NoDialog /\ ~isDeleting
    /\ Visible(session)
    /\ sessionToDelete' = session.id
    /\ showDeleteDialog' = TRUE
    /\ UNCHANGED <<srvSessions, fetchPc, date, mentoringSessions,
                   filteredSessions, activeSession, calendarEvents,
                   sessionsLoading, isDeleting, showEditLinkDialog,
                   sessionToEdit, newLink, isUpdatingLink, toast, opened,
                   toastActions, deletes, edits>>
    /\ UNCHANGED notSchedVars

\* The button Cancelar of the delete dialog.
CancelRefuse ==
    /\ showDeleteDialog /\ ~isDeleting
    /\ showDeleteDialog' = FALSE
    /\ sessionToDelete' = NULL
    /\ UNCHANGED <<srvSessions, fetchPc, date, mentoringSessions,
                   filteredSessions, activeSession, calendarEvents,
                   sessionsLoading, isDeleting, showEditLinkDialog,
                   sessionToEdit, newLink, isUpdatingLink, toast, opened,
                   toastActions, deletes, edits>>
    /\ UNCHANGED notSchedVars

\* onOpenChange of the delete dialog: it is closed from outside its buttons.
CloseDeleteDialog ==
    /\ showDeleteDialog
    /\ showDeleteDialog' = FALSE
    /\ UNCHANGED <<srvSessions, fetchPc, date, mentoringSessions,
                   filteredSessions, activeSession, calendarEvents,
                   sessionsLoading, sessionToDelete, isDeleting,
                   showEditLinkDialog, sessionToEdit, newLink,
                   isUpdatingLink, toast, opened, toastActions, deletes,
                   edits>>
    /\ UNCHANGED notSchedVars

\* handleConfirmRefuse, up to its await.
ConfirmRefuse ==
    /\ showDeleteDialog /\ ~isDeleting
    /\ IF sessionToDelete = NULL
       THEN UNCHANGED <<isDeleting, deletes>>
       ELSE /\ isDeleting' = TRUE
            /\ deletes' = deletes \cup
                   {[kind |-> "refuse", id |-> sessionToDelete,
                     sessions |-> mentoringSessions]}
    /\ UNCHANGED <<srvSessions, fetchPc, date, mentoringSessions,
                   filteredSessions, activeSession, calendarEvents,
                   sessionsLoading, showDeleteDialog, sessionToDelete,
                   showEditLinkDialog, sessionToEdit, newLink,
                   isUpdatingLink, toast, opened, toastActions, edits>>
    /\ UNCHANGED notSchedVars

\* deleteSession of handleConfirmRefuse answers.
RefuseOk(req) ==
    /\ req \in deletes /\ req.kind = "refuse"
    /\ mentoringSessions' = WithoutSession(mentoringSessions, req.id)
    /\ calendarEvents' = CalendarAfterDelete(req.sessions, req.id)
    /\ filteredSessions' = filterSessionsByDate(mentoringSessions', date)
    /\ toast' = "Sessao recusada com sucesso!"
    /\ isDeleting' = FALSE
    /\ showDeleteDialog' = FALSE
    /\ sessionToDelete' = NULL
    /\ deletes' = deletes \ {req}
    /\ UNCHANGED <<srvSessions, fetchPc, date, activeSession,
                   sessionsLoading, showEditLinkDialog, sessionToEdit,
                   newLink, isUpdatingLink, opened, toastActions, edits>>
    /\ UNCHANGED notSchedVars

\* deleteSession of handleConfirmRefuse fails.
RefuseFail(req) ==
    /\ req \in deletes /\ req.kind = "refuse"
    /\ toast' = "Erro ao recusar sessao"
    /\ isDeleting' = FALSE
    /\ showDeleteDialog' = FALSE
    /\ sessionToDelete' = NULL
    /\ deletes' = deletes \ {req}
    /\ UNCHANGED <<srvSessions, fetchPc, date, mentoringSessions,
                   filteredSessions, activeSession, calendarEvents,
                   sessionsLoading, showEditLinkDialog, sessionToEdit,
                   newLink, isUpdatingLink, opened, toastActions, edits>>
    /\ UNCHANGED notSchedVars

\* handleEditLink, from the button of a visible session.
EditLink(session) ==
    /\ SessionsShown /\ NoDialog
    /\ Visible(session)
    /\ sessionToEdit' = session
    /\ newLink' = (IF Truthy(session.link) THEN session.link ELSE <<>>)
    /\ showEditLinkDialog' = TRUE
    /\ UNCHANGED <<srvSessions, fetchPc, date, mentoringSessions,
                   filteredSessions, activeSession, calendarEvents,
                   sessionsLoading, showDeleteDialog, sessionToDelete,
                   isDeleting, isUpdatingLink, toast, opened, toastActions,
                   deletes, edits>>
    /\ UNCHANGED notSchedVars

\* onChange of the link input.
TypeLink(text) ==
    /\ showEditLinkDialog /\ ~isUpdatingLink
    /\ newLink' = text
    /\ UNCHANGED <<srvSessions, fetchPc, date, mentoringSessions,
                   filteredSessions, activeSession, calendarEvents,
                   sessionsLoading, showDeleteDialog, sessionToDelete,
                   isDeleting, showEditLinkDialog, sessionToEdit,
                   isUpdatingLink, toast, opened, toastActions, deletes,
                   edits>>
    /\ UNCHANGED notSchedVars

\* The button Cancelar of the edit dialog.
CancelEditLink ==
    /\ showEditLinkDialog /\ ~isUpdatingLink
    /\ showEditLinkDialog' = FALSE
    /\ sessionToEdit' = NoSession
    /\ newLink' = <<>>
    /\ UNCHANGED <<srvSessions, fetchPc, date, mentoringSessions,
                   filteredSessions, activeSession, calendarEvents,
                   sessionsLoading, showDeleteDialog, sessionToDelete,
                   isDeleting, isUpdatingLink, toast, opened, toastActions,
                   deletes, edits>>
    /\ UNCHANGED notSchedVars

\* onOpenChange of the edit dialog: it is closed from outside its buttons.
CloseEditDialog ==
    /\ showEditLinkDialog
    /\ showEditLinkDialog' = FALSE
    /\ UNCHANGED <<srvSessions, fetchPc, date, mentoringSessions,
                   filteredSessions, activeSession, calendarEvents,
                   sessionsLoading, showDeleteDialog, sessionToDelete,
                   isDeleting, sessionToEdit, newLink, isUpdatingLink,
                   toast, opened, toastActions, deletes, edits>>
    /\ UNCHANGED notSchedVars

\* A mutant of EditLinkRejected: the link is not trimmed before the test.
EditLinkRejected_NoTrim(session, link) == session = NoSession \/ ~Truthy(link)

\* if (!sessionToEdit || !newLink.trim()) of handleConfirmEditLink
EditLinkRejected(session, link) == session = NoSession \/ ~Truthy(Trim(link))

\* handleConfirmEditLink, up to its await.
handleConfirmEditLink ==
    /\ IF EditLinkRejected(sessionToEdit, newLink)
       THEN /\ toast' = "Por favor, insira um link valido"
            /\ UNCHANGED <<isUpdatingLink, edits>>
       ELSE /\ isUpdatingLink' = TRUE
            /\ edits' = edits \cup {[session |-> sessionToEdit, link |-> Trim(newLink)]}
            /\ UNCHANGED toast
    /\ UNCHANGED <<srvSessions, fetchPc, date, mentoringSessions,
                   filteredSessions, activeSession, calendarEvents,
                   sessionsLoading, showDeleteDialog, sessionToDelete,
                   isDeleting, showEditLinkDialog, sessionToEdit, newLink,
                   opened, toastActions, deletes>>
    /\ UNCHANGED notSchedVars

\* The button Salvar Link of the edit dialog, which is disabled while a
\* request is in flight or the link is blank.
ConfirmEditLink ==
    /\ showEditLinkDialog /\ ~isUpdatingLink /\ Truthy(Trim(newLink))
    /\ handleConfirmEditLink

\* sessions.map(session => session.id === sessionToEdit.id ? updatedSession : session)
SessionsAfterEdit_MovedToEnd(sessions, sessionId, updatedSession) ==
    LET NotEdited(session) == session.id # sessionId
    IN  IF \E i \in DOMAIN sessions : sessions[i].id = sessionId
        THEN Append(SelectSeq(sessions, NotEdited), updatedSession)
        ELSE sessions

SessionsAfterEdit_Upsert(sessions, sessionId, updatedSession) ==
    IF \E i \in DOMAIN sessions : sessions[i].id = sessionId
    THEN [i \in DOMAIN sessions |->
             IF sessions[i].id = sessionId THEN updatedSession ELSE sessions[i]]
    ELSE Append(sessions, updatedSession)

SessionsAfterEdit(sessions, sessionId, updatedSession) ==
    [i \in DOMAIN sessions |->
        IF sessions[i].id = sessionId THEN updatedSession ELSE sessions[i]]

\* updateSession answers with the session under its new link.
EditOk(req) ==
    /\ req \in edits
    /\ LET updatedSession == [req.session EXCEPT !.link = req.link]
       IN  mentoringSessions' =
               SessionsAfterEdit(mentoringSessions, req.session.id, updatedSession)
    /\ filteredSessions' = filterSessionsByDate(mentoringSessions', date)
    /\ toast' = "Link atualizado com sucesso!"
    /\ isUpdatingLink' = FALSE
    /\ showEditLinkDialog' = FALSE
    /\ sessionToEdit' = NoSession
    /\ newLink' = <<>>
    /\ edits' = edits \ {req}
    /\ UNCHANGED <<srvSessions, fetchPc, date, activeSession,
                   calendarEvents, sessionsLoading, showDeleteDialog,
                   sessionToDelete, isDeleting, opened, toastActions,
                   deletes>>
    /\ UNCHANGED notSchedVars

\* updateSession fails.
EditFail(req) ==
    /\ req \in edits
    /\ toast' = "Erro ao atualizar link"
    /\ isUpdatingLink' = FALSE
    /\ showEditLinkDialog' = FALSE
    /\ sessionToEdit' = NoSession
    /\ newLink' = <<>>
    /\ edits' = edits \ {req}
    /\ UNCHANGED <<srvSessions, fetchPc, date, mentoringSessions,
                   filteredSessions, activeSession, calendarEvents,
                   sessionsLoading, showDeleteDialog, sessionToDelete,
                   isDeleting, opened, toastActions, deletes>>
    /\ UNCHANGED notSchedVars

\* The application at /mentor/mentoria, signed in as a mentor.
AppAtMentoria(userIds) ==
    /\ storage \in [token : {<<"t","k","1">>}, userRole : {MENTOR}, userId : userIds]
    /\ authChecked = TRUE
    /\ isAuthenticated = TRUE
    /\ userRole = MENTOR
    /\ path = <<"mentor", "mentoria">>
    /\ rendered = Page("MentorRoutes")
    /\ MessagingUnmounted

\* MentorMentoria as it is constructed, before its mount effect.
MentoriaMounted ==
    /\ fetchPc = "idle"
    /\ date = Today
    /\ mentoringSessions = <<>>
    /\ filteredSessions = <<>>
    /\ activeSession = NULL
    /\ calendarEvents = <<>>
    /\ sessionsLoading = TRUE
    /\ showDeleteDialog = FALSE
    /\ sessionToDelete = NULL
    /\ isDeleting = FALSE
    /\ showEditLinkDialog = FALSE
    /\ sessionToEdit = NoSession
    /\ newLink = <<>>
    /\ isUpdatingLink = FALSE
    /\ toast = ""
    /\ opened = NULL
    /\ toastActions = {}
    /\ deletes = {}
    /\ edits = {}

\* The load of the page and its calendar, for every answer of the backend.
InitCal ==
    /\ AppAtMentoria({Me})
    /\ srvSessions \in SessionLists(MaxSessions)
    /\ MentoriaMounted

NextCal ==
    \/ FetchStart
    \/ FetchOk
    \/ FetchFail
    \/ \E selectedDate \in CalendarDays \cup {UndefinedDate} : SelectDay(selectedDate)

SpecCal == InitCal /\ [][NextCal]_vars

\* The page in use: the backend holds two chat sessions on one day, or a
\* chat session and, on the next day, a video session without a link yet.
SchedSessionLists ==
    { << Session(SessionId(1), Me, Nov3, CHAT, NULL),
         Session(SessionId(2), Me, Nov3Evening, CHAT, NULL) >>,
      << Session(SessionId(1), Me, Nov3, CHAT, NULL),
         Session(SessionId(3), Me, Nov4, CHAMADA_DE_VIDEO, NULL) >> }

\* What is typed into the link input, and the days clicked on the calendar.
LinkInputs == { <<" ">>, <<"u">> }
SchedDays == { DateOf(2026, 11, 3, 0), UndefinedDate }

InitSched ==
    /\ AppAtMentoria({Me})
    /\ srvSessions \in SchedSessionLists
    /\ MentoriaMounted

NextSched ==
    \/ FetchStart
    \/ FetchOk
    \/ FetchFail
    \/ \E selectedDate \in SchedDays : SelectDay(selectedDate)
    \/ \E i \in DOMAIN filteredSessions : StartMentoring(filteredSessions[i])
    \/ \E action \in toastActions : ToastEndSession(action)
    \/ \E req \in deletes : EndSessionOk(req)
    \/ \E req \in deletes : EndSessionFail(req)
    \/ \E i \in DOMAIN filteredSessions : RefuseSession(filteredSessions[i])
    \/ CancelRefuse
    \/ CloseDeleteDialog
    \/ ConfirmRefuse
    \/ \E req \in deletes : RefuseOk(req)
    \/ \E req \in deletes : RefuseFail(req)
    \/ \E i \in DOMAIN filteredSessions : EditLink(filteredSessions[i])
    \/ \E text \in LinkInputs : TypeLink(text)
    \/ CancelEditLink
    \/ CloseEditDialog
    \/ ConfirmEditLink
    \/ \E req \in edits : EditOk(req)
    \/ \E req \in edits : EditFail(req)

SpecSched == InitSched /\ [][NextSched]_vars

\* The edit of a link with handleConfirmEditLink called as a function, also
\* where its button is disabled: with a blank link and with no session to
\* edit.
NextEdit ==
    \/ FetchStart
    \/ FetchOk
    \/ FetchFail
    \/ \E i \in DOMAIN filteredSessions : EditLink(filteredSessions[i])
    \/ \E text \in LinkInputs \cup {<<>>} : TypeLink(text)
    \/ CancelEditLink
    \/ CloseEditDialog
    \/ SessionsShown /\ ~isUpdatingLink /\ handleConfirmEditLink
    \/ \E req \in edits : EditOk(req)
    \/ \E req \in edits : EditFail(req)

SpecEdit == InitSched /\ [][NextEdit]_vars

\* ---- claims on sending -------------------------------------------------

\* The backend's history holds a message from or to the counterpart id.
HasHistory(id) ==
    \/ \E i \in DOMAIN srvReceived : Involves(srvReceived[i], id)
    \/ \E i \in DOMAIN srvSent : Involves(srvSent[i], id)

Occurrences(list, id) == Cardinality({ i \in DOMAIN list : list[i].id = id })

\* The optimistic message of the request is still the last one of the
\* panel's list, which is as long as just after the submit.
OptimisticIsLast(req) ==
    /\ Len(panelMessages) = req.lenBefore + 1
    /\ panelMessages[Len(panelMessages)] =
           [id |-> req.optimisticId, user |-> Voce, content |-> req.content]

\* C3: when the backend send call of a submitted message fails, the panel's
\* message list after the failure has the same length as before the send
\* (the optimistic message is rolled back).
C3_FailedSendRollsBack ==
    [][\A req \in BagToSet(sends) :
          SendFail(req) /\ OptimisticIsLast(req)
              => Len(panelMessages') = req.lenBefore]_vars

\* C4: a successful send to a counterpart without chat history (it is in the
\* available list and not in the with-chats list) removes it from the
\* available list and puts it at index 0 of the with-chats list exactly once,
\* on the student page and on the mentor page.
C4_FirstSendMovesCounterpartToHead ==
    [][\A req \in BagToSet(sends) :
          ( /\ SendOk(req)
            /\ req.sel.id \in Ids(available)
            /\ req.sel.id \notin Ids(withChats) )
          => /\ req.sel.id \notin Ids(available')
             /\ withChats' # <<>>
             /\ withChats'[1].id = req.sel.id
             /\ withChats'[1].lastMessage = req.content
             /\ Occurrences(withChats', req.sel.id) = 1]_vars

\* C4 witness: on the student page a first message to Cp1, with whom the
\* backend holds no history, has been sent with success.
C4_Witness ==
    /\ page = "student"
    /\ ~HasHistory(Cp1)
    /\ sends = EmptyBag
    /\ withChats # <<>>
    /\ withChats[1].id = Cp1
    /\ withChats[1].lastMessage = <<"o","i">>
    /\ Cp1 \notin Ids(available)

\* C5: once the initial load is over, through any selects and sends, no
\* counterpart id is in both the with-chats list and the available list, and
\* each counterpart of the roster is in one of them.
C5_CounterpartInExactlyOneList ==
    ListsShown =>
        /\ Ids(withChats) \cap Ids(available) = {}
        /\ \A i \in DOMAIN srvRoster :
              srvRoster[i].role = CounterpartRole(page)
                  => srvRoster[i].id \in Ids(withChats) \cup Ids(available)

\* C5 witness: after a load that found history with Cp1, a message to Cp2
\* has been sent with success and Cp1 selected again: both are in the
\* with-chats list only.
C5_Witness ==
    /\ ListsShown
    /\ HasHistory(Cp1)
    /\ ~HasHistory(Cp2)
    /\ Ids(withChats) = {Cp1, Cp2}
    /\ withChats[1].id = Cp2
    /\ withChats[1].lastMessage = <<"o","i">>
    /\ selected.id = Cp1
    /\ sends = EmptyBag


\* ---- claims on the session scheduling page ------------------------------

\* The sessions of the list whose date parses to a valid date on the day.
SessionsOn(sessions, day) ==
    Cardinality({ i \in DOMAIN sessions : isSameDay(parseISO(sessions[i].date), day) })

\* The calendar events are the day-bucketed counts of the sessions.
CalendarMatches(events, sessions) ==
    /\ \A day \in CalendarDays :
          /\ getSessionCount(events, day) = SessionsOn(sessions, day)
          /\ isDayWithSession(events, day) <=> SessionsOn(sessions, day) >= 1
    /\ Len(events) = Cardinality({ day \in CalendarDays : SessionsOn(sessions, day) >= 1 })

\* The session of the list under the id.
SessionOf(sessions, sessionId) ==
    sessions[CHOOSE i \in DOMAIN sessions : sessions[i].id = sessionId]

\* C7: a delete that succeeds (confirm-refuse or end-session) removes the
\* session from the visible list and lowers the calendar count of its day by
\* one; when it was the last session of that day, isDayWithSession becomes
\* false for the day.
C7_DeleteUpdatesListAndCalendar ==
    [][\A req \in deletes :
          ( /\ EndSessionOk(req) \/ RefuseOk(req)
            /\ req.id \in Ids(mentoringSessions) )
          => LET day == parseISO(SessionOf(mentoringSessions, req.id).date)
             IN  /\ req.id \notin Ids(filteredSessions')
                 /\ isValid(day) =>
                      /\ getSessionCount(calendarEvents', day)
                             = getSessionCount(calendarEvents, day) - 1
                      /\ SessionsOn(mentoringSessions', day) = 0
                             => ~isDayWithSession(calendarEvents', day)]_vars

\* C8: when no backend call is in flight, calendarEvents is the day-bucketed
\* count of the sessions of mentoringSessions that have a valid date.
C8_CalendarMatchesSessionsWhenSettled ==
    (fetchPc = "done" /\ deletes = {} /\ edits = {})
        => CalendarMatches(calendarEvents, mentoringSessions)

\* C9: after the load, for every day of the calendar getSessionCount is the
\* number of loaded sessions whose date parses to a valid date on that day,
\* isDayWithSession is true exactly when that number is at least 1, and a
\* session with a missing or unparseable date is counted on no day.
C9_CalendarCountsLoadedSessions ==
    fetchPc = "done" => CalendarMatches(calendarEvents, mentoringSessions)

\* C9 witness: the load gave two sessions on 3 November (one with a time of
\* day), one on 4 November and one whose date does not parse.
C9_Witness ==
    /\ fetchPc = "done"
    /\ Len(mentoringSessions) = 4
    /\ getSessionCount(calendarEvents, DateOf(2026, 11, 3, 0)) = 2
    /\ getSessionCount(calendarEvents, DateOf(2026, 11, 4, 0)) = 1
    /\ \E i \in DOMAIN mentoringSessions : mentoringSessions[i].date = Nov3Evening
    /\ \E i \in DOMAIN mentoringSessions :
          mentoringSessions[i].date \in {OutOfRange, Amanha, <<>>, UNDEFINED}

\* C10: starting a chat session while a chat session is active is rejected:
\* activeSession keeps its id, and the session list, the filtered list and
\* the calendar events are unchanged.
C10_SecondChatStartRejected ==
    [][\A i \in DOMAIN filteredSessions :
          ( /\ StartMentoring(filteredSessions[i])
            /\ filteredSessions[i].type = CHAT
            /\ activeSession # NULL )
          => /\ activeSession' = activeSession
             /\ mentoringSessions' = mentoringSessions
             /\ filteredSessions' = filteredSessions
             /\ calendarEvents' = calendarEvents]_vars

\* C10 witness: with the first chat session active and both chat sessions on
\* screen, a start has been rejected.
C10_Witness ==
    /\ toast = "Voce ja possui uma sessao ativa!"
    /\ activeSession = SessionId(1)
    /\ Ids(filteredSessions) = {SessionId(1), SessionId(2)}


\* C11: handleConfirmEditLink called with an empty or whitespace-only link,
\* or with no session to edit, issues no updateSession call and leaves the
\* session list unchanged.
C11_BlankLinkIssuesNoUpdate ==
    [][( /\ handleConfirmEditLink
         /\ sessionToEdit = NoSession \/ Trim(newLink) = <<>> )
       => /\ edits' = edits
          /\ mentoringSessions' = mentoringSessions
          /\ filteredSessions' = filteredSessions]_vars

\* C11 witness: a whitespace-only link has been confirmed for a session: the
\* error toast is shown and no request is in flight.
C11_Witness ==
    /\ toast = "Por favor, insira um link valido"
    /\ sessionToEdit # NoSession
    /\ newLink = <<" ">>
    /\ edits = {}
    /\ ~isUpdatingLink


\* C12: getDashboardPath is /dashboard for ESTUDANTE, /admin for ADMIN,
\* /mentor for MENTOR and /login for every other value of userRole, null and
\* undefined included.
C12_DashboardPathByRole ==
    /\ userRole = ESTUDANTE => getDashboardPath = <<"dashboard">>
    /\ userRole = ADMIN => getDashboardPath = <<"admin">>
    /\ userRole = MENTOR => getDashboardPath = <<"mentor">>
    /\ userRole \notin {ESTUDANTE, ADMIN, MENTOR} => getDashboardPath = LoginPath

\* C12 witness: a session whose role is none of the three is at a guarded
\* route, and the guard sends it to the resolver's answer, /login.
C12_Witness ==
    /\ authChecked
    /\ isAuthenticated
    /\ userRole = <<"G","U","E","S","T">>
    /\ IsGuarded(path)
    /\ rendered = Navigate(LoginPath)


\* C13: once the initial storage read is over, through logins and logouts,
\* isAuthenticated is true exactly when a token is in storage.
C13_AuthenticatedIffTokenStored ==
    authChecked => (isAuthenticated <=> Truthy(storage.token))

\* C13 witness: a signed-in session with its token in storage, at /login.
C13_Witness ==
    /\ authChecked
    /\ isAuthenticated
    /\ storage.token \in Tokens
    /\ path = LoginPath


\* u is r with each lower-case letter replaced by its capital.
IsUpperCaseOf(u, r) ==
    /\ Len(u) = Len(r)
    /\ \A i \in DOMAIN r : u[i] = UpperChar(r[i])

\* C14: after a successful login with role r, the value stored under the
\* userRole key of storage is the upper-case form of r.
C14_StoredRoleIsUpperCased ==
    [][\A token \in Tokens, role \in RoleStrings :
          onLoginSuccess(token, role)
              => IsUpperCaseOf(storage'.userRole, role)]_vars


\* The panel's message is one of the backend's messages from or to id.
FromChatWith(message, id) ==
    \/ \E i \in DOMAIN srvReceived :
          srvReceived[i].content = message.content /\ Involves(srvReceived[i], id)
    \/ \E i \in DOMAIN srvSent :
          srvSent[i].content = message.content /\ Involves(srvSent[i], id)

\* C15: a stale response does not overwrite newer state: once every fetch
\* of the panel has been answered, its list holds only messages from or to
\* the selected counterpart, whatever the order of the answers.
C15_StaleFetchDoesNotOverwrite ==
    (selected # NoSelection /\ panelFetches = EmptyBag)
        => \A i \in DOMAIN panelMessages : FromChatWith(panelMessages[i], selected.id)


\* The session's date parses to a valid date on the calendar day of day.
HasValidDateOn(session, day) ==
    LET sessionDate == parseISO(session.date)
    IN  /\ sessionDate.kind = "date"
        /\ sessionDate.year = day.year
        /\ sessionDate.month = day.month
        /\ sessionDate.day = day.day

UnparseableDates == { OutOfRange, Amanha, <<>>, UNDEFINED }
HasNoValidDate(session) == session.date \in UnparseableDates

RECURSIVE CountedSessions(_, _)
CountedSessions(events, k) ==
    IF k > Len(events) THEN 0
    ELSE events[k].sessions + CountedSessions(events, k + 1)

\* The calendar counts only sessions with a valid date, and a session of the
\* list without one is among the shown sessions exactly when no day is
\* selected.
WithoutValidDateHandled ==
    /\ CountedSessions(calendarEvents, 1)
          = Cardinality({ i \in DOMAIN mentoringSessions :
                              ~HasNoValidDate(mentoringSessions[i]) })
    /\ \A i \in DOMAIN mentoringSessions :
          HasNoValidDate(mentoringSessions[i])
              => (Visible(mentoringSessions[i]) <=> date = UndefinedDate)

C18_EditReplacesOnlyMatchingSession ==
    [][\A req \in edits :
          EditOk(req) =>
              /\ Len(mentoringSessions') = Len(mentoringSessions)
              /\ \A i \in DOMAIN mentoringSessions :
                    IF mentoringSessions[i].id = req.session.id
                    THEN mentoringSessions'[i]
                             = [req.session EXCEPT !.link = req.link]
                    ELSE mentoringSessions'[i] = mentoringSessions[i]]_vars

\* The first of two sessions has had its link replaced.
C18_Witness ==
    /\ toast = "Link atualizado com sucesso!"
    /\ Len(mentoringSessions) = 2
    /\ mentoringSessions[1].link = <<"u">>
    /\ mentoringSessions[2].link = NULL


\* C19: after a load, the available list holds exactly the entries of the
\* roster that have the counterpart role and whose id is not in the
\* with-chats list, in the order of the roster.
C19_AvailableIsRosterWithoutChats ==
    [][LoadReconcile =>
          LET Listed(u) == /\ u.role = CounterpartRole(page)
                           /\ \A k \in DOMAIN withChats' : withChats'[k].id # u.id
              expected == SelectSeq(srvRoster, Listed)
          IN  /\ Len(available') = Len(expected)
              /\ \A i \in DOMAIN expected : available'[i].id = expected[i].id]_vars

\* The load left one entry of a roster of two in the available list and has
\* the other in the with-chats list.
C19_Witness ==
    /\ loadPc = "done"
    /\ error = NULL
    /\ Len(srvRoster) = 2
    /\ Len(available) = 1
    /\ \E j \in DOMAIN srvRoster : srvRoster[j].id \in Ids(withChats)
    /\ \E j \in DOMAIN srvRoster : srvRoster[j].id = available[1].id


\* C20: when one of the three fetches of the load fails, error becomes
\* non-null and both lists stay as they were before the load; loading
\* eventually becomes false.
C20_FailedLoadSetsErrorKeepsLists ==
    /\ [][LoadFetchFail =>
             /\ error' # NULL
             /\ withChats' = withChats
             /\ available' = available]_vars
    /\ [](error = ErrLoadFailed => <>(~loading))

\* A load has failed with a backend that had a roster to give.
C20_Witness ==
    /\ loadPc = "done"
    /\ error = ErrLoadFailed
    /\ ~loading
    /\ srvRoster # <<>>
    /\ withChats = <<>>
    /\ available = <<>>


\* C21: logout clears the session as a whole: after the effect of the logout
\* route the storage keys token, userRole and userId are absent,
\* isAuthenticated is false and the role is null; no step clears the token
\* and leaves the role set.
C21_LogoutClearsWholeSession ==
    [][ /\ Logout =>
              /\ storage'.token = NULL
              /\ storage'.userRole = NULL
              /\ storage'.userId = NULL
              /\ ~isAuthenticated'
              /\ userRole' = NULL
        /\ (Truthy(storage.token) /\ ~Truthy(storage'.token)) =>
              /\ storage'.userRole = NULL
              /\ userRole' = NULL
              /\ ~isAuthenticated' ]_vars

\* The logout of a signed-in mentor has run.
C21_Witness ==
    /\ authChecked
    /\ storage = [token |-> NULL, userRole |-> NULL, userId |-> NULL]
    /\ ~isAuthenticated
    /\ userRole = NULL
    /\ path = RootPath


\* C22: on the narrow-viewport view the back action changes only
\* showChatOnMobile, to false: the with-chats list, the available list, the
\* selected counterpart, the search query and the error are unchanged.
C22_BackChangesOnlyShowChatOnMobile ==
    [][BackToList =>
          /\ ~showChatOnMobile'
          /\ withChats' = withChats
          /\ available' = available
          /\ selected' = selected
          /\ searchQuery' = searchQuery
          /\ error' = error]_vars

\* Back at the list with a counterpart selected and a search typed.
C22_Witness ==
    /\ ~showChatOnMobile
    /\ selected # NoSelection
    /\ searchQuery # <<>>
    /\ Len(withChats) + Len(available) >= 2


\* Following the redirects from location p renders a page after at most n
\* of them.
MaxRedirects == 3
RECURSIVE RendersPageWithin(_, _)
RendersPageWithin(p, n) ==
    LET element == RouteElement(p)
    IN  IF element.kind = "page" THEN TRUE
        ELSE IF element.kind = "navigate" /\ n > 0
             THEN RendersPageWithin(element.arg, n - 1)
             ELSE FALSE

\* C23: client-side redirects terminate: for every session state and every
\* starting path, following the redirects of the route table reaches a path
\* that renders a page after finitely many redirects; no path redirects to
\* itself or into a cycle.
C23_RedirectsReachAPage ==
    authChecked => \A p \in Paths : RendersPageWithin(p, MaxRedirects)


\* C24: the with-chats list never holds two entries with the same
\* counterpart id, in every state reachable after the load through sends, two
\* sends in flight to the same counterpart without history included.
C24_WithChatsHasNoDuplicateId ==
    \A i, j \in DOMAIN withChats :
        i # j => withChats[i].id # withChats[j].id


\* C25: activeSession is always null or the id of a session present in
\* mentoringSessions, after any sequence of start-chat, refuse, end-session
\* and edit-link operations.
C25_ActiveSessionIsInList ==
    activeSession = NULL
        \/ \E i \in DOMAIN mentoringSessions : mentoringSessions[i].id = activeSession


\* C26: the completion of a send never changes which counterpart is
\* selected: when another counterpart was selected while the send was in
\* flight, it is still selected after the send completes.
C26_SendCompletionKeepsSelection ==
    [][\A req \in BagToSet(sends) :
          (SendOk(req) \/ SendFail(req)) => selected'.id = selected.id]_vars


\* C27: when the delete call of end-session or of confirm-refuse fails,
\* mentoringSessions, filteredSessions, calendarEvents and activeSession
\* keep the values they had before the call was answered.
C27_FailedDeleteChangesNothing ==
    [][\A req \in deletes :
          (EndSessionFail(req) \/ RefuseFail(req)) =>
              /\ mentoringSessions' = mentoringSessions
              /\ filteredSessions' = filteredSessions
              /\ calendarEvents' = calendarEvents
              /\ activeSession' = activeSession]_vars

\* Ending the active chat has failed: the chat is still active and both
\* sessions are listed.
C27_Witness ==
    /\ toast = "Erro ao encerrar sessao"
    /\ activeSession # NULL
    /\ Len(mentoringSessions) = 2
    /\ deletes = {}


\* C28: after the initial fetch the set of session ids in mentoringSessions
\* never grows: the answer to a link edit that arrives after its session was
\* deleted does not put the session back.
C28_SessionIdsNeverGrow ==
    [][fetchPc = "done" => Ids(mentoringSessions') \subseteq Ids(mentoringSessions)]_vars

\* The answer to a link edit has arrived after its session was deleted: one
\* session is left and it does not have the new link.
C28_Witness ==
    /\ fetchPc = "done"
    /\ toast = "Link atualizado com sucesso!"
    /\ Len(mentoringSessions) = 1
    /\ mentoringSessions[1].link # <<"u">>
    /\ edits = {}
    /\ deletes = {}


\* The session state is the one a start of the application reads from the
\* storage: authenticated exactly when a non-empty token is stored, and the
\* role the upper-case form of the stored role (undefined when none is).
SessionIsAsStored ==
    /\ isAuthenticated <=> (storage.token # NULL /\ storage.token # <<>>)
    /\ IF storage.userRole = NULL
       THEN userRole = UNDEFINED
       ELSE IsUpperCaseOf(userRole, storage.userRole)

\* C29: a login followed by a restart is a round trip: for every non-empty
\* token and every role string in any letter case, the session state held
\* right after the login is the state the next start reads from storage.
C29_LoginThenRestartRoundTrip ==
    [][ /\ (\E token \in Tokens, role \in RoleStrings : onLoginSuccess(token, role))
              => SessionIsAsStored'
        /\ AuthInitEffect => SessionIsAsStored' ]_vars

\* The application has started with the storage that a login with the role
\* "mentor" leaves, and is at the mentor's dashboard.
C29_Witness ==
    /\ authChecked
    /\ isAuthenticated
    /\ storage.userRole = <<"m","e","n","t","o","r">>
    /\ userRole = MENTOR
    /\ rendered = Page("MentorRoutes")


\* C30: whenever showChatOnMobile is true a counterpart is selected, in
\* every state reachable through select, back and send operations.
C30_ChatShownOnlyWithSelection ==
    showChatOnMobile => selected # NoSelection /\ selected.id # NULL

\* The narrow-viewport chat is shown with a send in flight.
C30_Witness ==
    /\ showChatOnMobile
    /\ selected # NoSelection
    /\ sends # EmptyBag

=============================================================================
